---- MODULE Spec2Model ----
(***************************************************************************)
(* Model of heater_control.py: the shared HeaterConfig object, the         *)
(* background temperature_monitor thread and the four API handlers         *)
(* (get_status, set_target, set_mode, set_heater) that run on concurrent   *)
(* request threads and synchronise on config.lock.                         *)
(*                                                                         *)
(* Temperatures are Python floats in the source.  They are modelled as     *)
(* integers counting hundredths of a degree (66.0 F is 6600), so that      *)
(* round(x, 1) is a real rounding and the +/- 0.5 band is 50.              *)
(*                                                                         *)
(* The monitor thread takes one step per statement.  A request thread      *)
(* takes three: the handler up to its with block (locals only), the        *)
(* acquisition of config.lock, and the with block together with the        *)
(* return.  control_heater is one step: both of its callers hold the lock. *)
(*                                                                         *)
(* sensor, plug_call and response are the inputs and outputs of the step   *)
(* just taken (the sensor value read, the call made to the plug, the       *)
(* response returned); every other step resets them.                       *)
(***************************************************************************)
EXTENDS Integers, Sequences, FiniteSets, TLC

\* ---------------------------------------------------------------- bounds
\* Number of concurrent request threads of the web server.
NumThreads == 1
\* The sensor delivers readings until the history holds this many samples;
\* afterwards every read fails (the loop itself keeps running).
MaxSamples == 1
\* In the history runs the sensor delivers this many readings, then fails.
MaxCycles == 150

\* ------------------------------------------------------ program constants
TARGET_MIN == 5000
TARGET_MAX == 8500
HYSTERESIS == 50
HISTORY_MAX == 100
STATUS_HISTORY == 20
DEFAULT_TARGET == 2200
INIT_CURRENT == 6400
INIT_TARGET == 6600

Threads == 1..NumThreads

\* ------------------------------------------------------------ environment
\* What TEMP_SENSOR.temperature can deliver: it raises, it yields None, or it
\* yields a Celsius value (hundredths of a degree).  18.6 C is 65.48 F and
\* 19.0 C is 66.2 F: below and inside the band of the initial target 66.0.
SensorFailures == {<<"raise">>, <<"None">>}
SensorOutputs == SensorFailures \cup {<<"ok", 1860>>, <<"ok", 1900>>}

\* The JSON 'target' of a set_target request: absent, a value float() rejects,
\* NaN, or a number.  The numbers are the two ends of the valid range, their
\* outer neighbours, 65.98 (whose band starts at the reading 65.48 and which
\* rounds to 66.0) and 65.7 (whose band ends at the reading 66.2).
TargetInputs ==
    {<<"absent">>, <<"text">>, <<"nan">>} \cup
    {<<"num", v>> : v \in {4999, 5000, 6570, 6598, 8500, 8501}}

\* The outcomes of SMART_PLUG.turn_on() / turn_off(): the plug switched, the
\* call returned an error value (which the caller does not look at), or the
\* call raised.
PlugOutcomes == {"ok", "error", "raise"}
PlugFailures == {"error", "raise"}

VARIABLES
    current_temp,   \* config.current_temp
    target_temp,    \* config.target_temp
    heater_on,      \* config.heater_on
    auto_mode,      \* config.auto_mode
    temp_history,   \* config.temp_history
    lock,           \* config.lock: TRUE while some thread holds it
    mpc,            \* position of the temperature_monitor thread
    temp,           \* temperature_monitor's local temp: <<>> unbound, <<v>>
    plug,           \* SMART_PLUG: the last command it was sent ("none" before any)
    plug_call,      \* the call to SMART_PLUG made by the step just taken, if any
    sensor,         \* what TEMP_SENSOR delivered in the step just taken, if it was read
    hpc,            \* position of each request thread
    hop,            \* the handler each request thread runs
    harg,           \* the handler's local (target / auto / turn_on)
    response        \* the response returned by the step just taken, if it returned one

state == <<current_temp, target_temp, heater_on, auto_mode, temp_history>>
vars == <<current_temp, target_temp, heater_on, auto_mode, temp_history, lock,
          mpc, temp, plug, plug_call, sensor, hpc, hop, harg, response>>

\* ------------------------------------------------------------ pure helpers
Max(a, b) == IF a >= b THEN a ELSE b
Min(a, b) == IF a <= b THEN a ELSE b

\* C2F(t) = t * 9 / 5 + 32
C2F(t) == (t * 9) \div 5 + 3200

\* round(x, 1): to the nearest tenth, a tie going to the even tenth.
Round1(x) ==
    LET q == x \div 10
        r == x % 10
    IN  IF r < 5 THEN q * 10
        ELSE IF r > 5 THEN (q + 1) * 10
        ELSE IF q % 2 = 0 THEN q * 10 ELSE (q + 1) * 10

\* s[:n], the first n entries instead of the last.
LastN_FirstN(s, n) == SubSeq(s, 1, Min(n, Len(s)))

\* s[-n:]
LastN(s, n) == SubSeq(s, Max(1, Len(s) - n + 1), Len(s))

\* read_temperature() taking a missing sensor value for 0 degrees Celsius.
read_temperature_NoneAsZero(s) ==
    IF s[1] = "ok" THEN <<"ok", C2F(s[2])>>
    ELSE IF s[1] = "None" THEN <<"ok", C2F(0)>>
    ELSE <<"raise">>

\* read_temperature(): C2F of the sensor value; C2F(None) raises TypeError.
read_temperature(s) ==
    IF s[1] = "ok" THEN <<"ok", C2F(s[2])>> ELSE <<"raise">>

\* float(data.get('target', 22))
ParseTarget(a) ==
    IF a[1] = "absent" THEN <<"num", DEFAULT_TARGET>>
    ELSE IF a[1] = "text" THEN <<"raise">>
    ELSE a

\* The range check with the upper bound left out.
ValidTarget_NoUpperBound(p) == p[1] = "num" /\ TARGET_MIN <= p[2]

\* The range check with the lower bound left out.
ValidTarget_NoLowerBound(p) == p[1] = "num" /\ p[2] <= TARGET_MAX

\* 50 <= target <= 85 (false for NaN)
ValidTarget(p) == p[1] = "num" /\ TARGET_MIN <= p[2] /\ p[2] <= TARGET_MAX

NoResponse == [thread |-> 0, op |-> "none", arg |-> <<>>, code |-> 0, body |-> <<>>]
NoRead == <<"none">>
NoCall == [cmd |-> "none", result |-> "none"]

\* datetime.now().strftime('%H:%M:%S'): the wall clock is not modelled, every
\* sample carries the same stamp.
TimeStamp == "HH:MM:SS"

\* The startup state with the controller in manual mode.
Init_ManualMode ==
    /\ current_temp = INIT_CURRENT
    /\ target_temp = INIT_TARGET
    /\ heater_on = FALSE
    /\ auto_mode = FALSE
    /\ temp_history = <<>>
    /\ lock = FALSE
    /\ mpc = "read"
    /\ temp = <<>>
    /\ plug = "none"
    /\ plug_call = NoCall
    /\ sensor = NoRead
    /\ hpc = [t \in Threads |-> "idle"]
    /\ hop = [t \in Threads |-> "none"]
    /\ harg = [t \in Threads |-> <<>>]
    /\ response = NoResponse

Init ==
    /\ current_temp = INIT_CURRENT
    /\ target_temp = INIT_TARGET
    /\ heater_on = FALSE
    /\ auto_mode = TRUE
    /\ temp_history = <<>>
    /\ lock = FALSE
    /\ mpc = "read"
    /\ temp = <<>>
    /\ plug = "none"
    /\ plug_call = NoCall
    /\ sensor = NoRead
    /\ hpc = [t \in Threads |-> "idle"]
    /\ hop = [t \in Threads |-> "none"]
    /\ harg = [t \in Threads |-> <<>>]
    /\ response = NoResponse

handlers == <<hpc, hop, harg>>
monitor == <<mpc, temp>>

\* A step that makes no call to SMART_PLUG / returns no response / does not
\* read the sensor.
NoPlugCall == plug_call' = NoCall /\ UNCHANGED plug
NoReply == response' = NoResponse
NoSensorRead == sensor' = NoRead
Quiet == NoReply /\ NoPlugCall /\ NoSensorRead

\* control_heater recording the new state only when the plug call succeeded.
control_heater_RecordsOnSuccess(turn_on) ==
    /\ plug' = IF turn_on THEN "on" ELSE "off"
    /\ \E o \in PlugOutcomes :
         /\ plug_call' = [cmd |-> plug', result |-> o]
         /\ heater_on' = IF o = "ok" THEN turn_on ELSE heater_on

\* ------------------------------------------------------- control_heater
\* config.heater_on = turn_on, then SMART_PLUG.turn_on() / turn_off(), which
\* returns or raises.
control_heater(turn_on) ==
    /\ heater_on' = turn_on
    /\ plug' = IF turn_on THEN "on" ELSE "off"
    /\ \E o \in PlugOutcomes : plug_call' = [cmd |-> plug', result |-> o]

\* --------------------------------------------------- temperature_monitor
\* temp = read_temperature(), the sensor delivering one of the outputs in S.
ReadFrom(S) ==
    /\ mpc = "read"
    /\ NoReply /\ NoPlugCall
    /\ \E s \in S :
         LET r == read_temperature(s) IN
         /\ sensor' = s
         /\ IF r[1] = "raise"
            THEN /\ mpc' = "except"
                 /\ temp' = temp
            ELSE /\ temp' = <<r[2]>>
                 /\ mpc' = IF temp' # <<>> THEN "acquire" ELSE "sleep"
    /\ UNCHANGED <<state, lock, handlers>>

\* temp = read_temperature() with a sensor that delivers any of its outputs.
MonitorRead ==
    ReadFrom(IF Len(temp_history) < MaxSamples THEN SensorOutputs ELSE SensorFailures)

\* The monitor entering its block without waiting for the lock.
MonitorAcquire_NoWait ==
    /\ mpc = "acquire"
    /\ Quiet
    /\ lock' = TRUE
    /\ mpc' = "set_current"
    /\ UNCHANGED <<state, temp, handlers>>

\* with config.lock:
MonitorAcquire ==
    /\ mpc = "acquire"
    /\ Quiet
    /\ ~lock
    /\ lock' = TRUE
    /\ mpc' = "set_current"
    /\ UNCHANGED <<state, temp, handlers>>

\* config.current_temp = temp
MonitorSetCurrent ==
    /\ mpc = "set_current"
    /\ Quiet
    /\ current_temp' = temp[1]
    /\ mpc' = "append"
    /\ UNCHANGED <<target_temp, heater_on, auto_mode, temp_history, lock, temp,
                   handlers>>

\* config.temp_history.append({'time': ..., 'temp': round(temp, 1)})
MonitorAppend ==
    /\ mpc = "append"
    /\ Quiet
    /\ temp_history' = Append(temp_history, [time |-> TimeStamp, temp |-> Round1(temp[1])])
    /\ mpc' = "evict"
    /\ UNCHANGED <<current_temp, target_temp, heater_on, auto_mode, lock, temp,
                   handlers>>

\* The eviction with pop() in place of pop(0): the newest sample is dropped.
MonitorEvict_PopsLast ==
    /\ mpc = "evict"
    /\ Quiet
    /\ temp_history' = IF Len(temp_history) > HISTORY_MAX
                       THEN SubSeq(temp_history, 1, Len(temp_history) - 1)
                       ELSE temp_history
    /\ mpc' = "control"
    /\ UNCHANGED <<current_temp, target_temp, heater_on, auto_mode, lock, temp,
                   handlers>>

\* if len(config.temp_history) > 100: config.temp_history.pop(0)
MonitorEvict ==
    /\ mpc = "evict"
    /\ Quiet
    /\ temp_history' = IF Len(temp_history) > HISTORY_MAX
                       THEN Tail(temp_history) ELSE temp_history
    /\ mpc' = "control"
    /\ UNCHANGED <<current_temp, target_temp, heater_on, auto_mode, lock, temp,
                   handlers>>

\* The decision with the band edges counted as outside the band (<=, >=).
MonitorControl_InclusiveBand ==
    /\ mpc = "control"
    /\ NoReply /\ NoSensorRead
    /\ IF auto_mode /\ temp[1] <= target_temp - HYSTERESIS /\ ~heater_on
       THEN /\ control_heater(TRUE)
            /\ mpc' = IF plug_call'.result = "raise" THEN "except" ELSE "sleep"
       ELSE IF auto_mode /\ temp[1] >= target_temp + HYSTERESIS /\ heater_on
       THEN /\ control_heater(FALSE)
            /\ mpc' = IF plug_call'.result = "raise" THEN "except" ELSE "sleep"
       ELSE /\ mpc' = "sleep"
            /\ UNCHANGED heater_on /\ NoPlugCall
    /\ lock' = FALSE
    /\ UNCHANGED <<current_temp, target_temp, auto_mode, temp_history, temp,
                   handlers>>

\* The decision with the branch that switches the heater on left out.
MonitorControl_OffOnly ==
    /\ mpc = "control"
    /\ NoReply /\ NoSensorRead
    /\ IF auto_mode /\ temp[1] > target_temp + HYSTERESIS /\ heater_on
       THEN /\ control_heater(FALSE)
            /\ mpc' = IF plug_call'.result = "raise" THEN "except" ELSE "sleep"
       ELSE /\ mpc' = "sleep"
            /\ UNCHANGED heater_on /\ NoPlugCall
    /\ lock' = FALSE
    /\ UNCHANGED <<current_temp, target_temp, auto_mode, temp_history, temp,
                   handlers>>

\* The decision without the test of config.auto_mode.
MonitorControl_IgnoresMode ==
    /\ mpc = "control"
    /\ NoReply /\ NoSensorRead
    /\ IF temp[1] < target_temp - HYSTERESIS /\ ~heater_on
       THEN /\ control_heater(TRUE)
            /\ mpc' = IF plug_call'.result = "raise" THEN "except" ELSE "sleep"
       ELSE IF temp[1] > target_temp + HYSTERESIS /\ heater_on
       THEN /\ control_heater(FALSE)
            /\ mpc' = IF plug_call'.result = "raise" THEN "except" ELSE "sleep"
       ELSE /\ mpc' = "sleep"
            /\ UNCHANGED heater_on /\ NoPlugCall
    /\ lock' = FALSE
    /\ UNCHANGED <<current_temp, target_temp, auto_mode, temp_history, temp,
                   handlers>>

\* if config.auto_mode: the hysteresis decision; then the lock is released, also
\* when control_heater raised.
MonitorControl ==
    /\ mpc = "control"
    /\ NoReply /\ NoSensorRead
    /\ IF auto_mode /\ temp[1] < target_temp - HYSTERESIS /\ ~heater_on
       THEN /\ control_heater(TRUE)
            /\ mpc' = IF plug_call'.result = "raise" THEN "except" ELSE "sleep"
       ELSE IF auto_mode /\ temp[1] > target_temp + HYSTERESIS /\ heater_on
       THEN /\ control_heater(FALSE)
            /\ mpc' = IF plug_call'.result = "raise" THEN "except" ELSE "sleep"
       ELSE /\ mpc' = "sleep"
            /\ UNCHANGED heater_on /\ NoPlugCall
    /\ lock' = FALSE
    /\ UNCHANGED <<current_temp, target_temp, auto_mode, temp_history, temp,
                   handlers>>

\* An except clause that falls back to manual mode.
MonitorExcept_FallsBackToManual ==
    /\ mpc = "except"
    /\ Quiet
    /\ auto_mode' = FALSE
    /\ mpc' = "sleep"
    /\ UNCHANGED <<current_temp, target_temp, heater_on, temp_history, lock, temp,
                   handlers>>

\* The handler of a try placed around the while loop: the thread ends.
MonitorExcept_LeavesLoop ==
    /\ mpc = "except"
    /\ Quiet
    /\ mpc' = "ended"
    /\ UNCHANGED <<state, lock, temp, handlers>>

\* except Exception as e: print(...)
MonitorExcept ==
    /\ mpc = "except"
    /\ Quiet
    /\ mpc' = "sleep"
    /\ UNCHANGED <<state, lock, temp, handlers>>

\* time.sleep(5)
MonitorSleep ==
    /\ mpc = "sleep"
    /\ Quiet
    /\ mpc' = "read"
    /\ UNCHANGED <<state, lock, temp, handlers>>

Monitor ==
    \/ MonitorRead
    \/ MonitorAcquire
    \/ MonitorSetCurrent
    \/ MonitorAppend
    \/ MonitorEvict
    \/ MonitorControl
    \/ MonitorExcept
    \/ MonitorSleep

\* ------------------------------------------------------------- handlers
\* The handler on thread t, called with arg, returns (jsonify(body), code).
Respond(t, op, arg, code, body) ==
    /\ response' = [thread |-> t, op |-> op, arg |-> arg, code |-> code, body |-> body]
    /\ NoSensorRead

Return(t) ==
    /\ hpc' = [hpc EXCEPT ![t] = "idle"]
    /\ hop' = [hop EXCEPT ![t] = "none"]
    /\ harg' = [harg EXCEPT ![t] = <<>>]

Enter(t, op, arg) ==
    /\ hpc' = [hpc EXCEPT ![t] = "acquire"]
    /\ hop' = [hop EXCEPT ![t] = op]
    /\ harg' = [harg EXCEPT ![t] = arg]
    /\ Quiet

\* A request for /api/status arrives on thread t.
GetStatusBegin(t) ==
    /\ hpc[t] = "idle"
    /\ Enter(t, "get_status", <<>>)
    /\ UNCHANGED <<state, lock, monitor>>

\* set_target up to the lock: target = float(data.get('target', 22)) and the
\* range check; an invalid target is answered without touching config.
SetTargetBegin(t) ==
    /\ hpc[t] = "idle"
    /\ \E a \in TargetInputs :
         LET p == ParseTarget(a) IN
         IF p[1] = "raise"
         THEN /\ Respond(t, "set_target", a, 500, [error |-> "Internal Server Error"])
              /\ NoPlugCall
              /\ UNCHANGED <<hpc, hop, harg>>
         ELSE IF ValidTarget(p)
         THEN Enter(t, "set_target", <<p[2]>>)
         ELSE /\ Respond(t, "set_target", a, 400,
                         [success |-> FALSE,
                          error |-> "Temperature must be between 50-85F"])
              /\ NoPlugCall
              /\ UNCHANGED <<hpc, hop, harg>>
    /\ UNCHANGED <<state, lock, monitor>>

\* auto = data.get('auto', True); the requests carry a JSON boolean.
SetModeBegin(t) ==
    /\ hpc[t] = "idle"
    /\ \E auto \in BOOLEAN : Enter(t, "set_mode", <<auto>>)
    /\ UNCHANGED <<state, lock, monitor>>

\* turn_on = data.get('on', False); the requests carry a JSON boolean.
SetHeaterBegin(t) ==
    /\ hpc[t] = "idle"
    /\ \E turn_on \in BOOLEAN : Enter(t, "set_heater", <<turn_on>>)
    /\ UNCHANGED <<state, lock, monitor>>

\* A handler entering its block without waiting for the lock.
HandlerAcquire_NoWait(t) ==
    /\ hpc[t] = "acquire"
    /\ lock' = TRUE
    /\ hpc' = [hpc EXCEPT ![t] = "locked"]
    /\ Quiet
    /\ UNCHANGED <<state, monitor, hop, harg>>

\* with config.lock: (in any of the four handlers)
HandlerAcquire(t) ==
    /\ hpc[t] = "acquire"
    /\ ~lock
    /\ lock' = TRUE
    /\ hpc' = [hpc EXCEPT ![t] = "locked"]
    /\ Quiet
    /\ UNCHANGED <<state, monitor, hop, harg>>

\* The status without the rounding of the two temperatures.
Snapshot_Unrounded ==
    [current_temp |-> current_temp,
     target_temp |-> target_temp,
     heater_on |-> heater_on,
     auto_mode |-> auto_mode,
     temp_history |-> LastN(temp_history, STATUS_HISTORY)]

\* jsonify({...}) of get_status
Snapshot ==
    [current_temp |-> Round1(current_temp),
     target_temp |-> Round1(target_temp),
     heater_on |-> heater_on,
     auto_mode |-> auto_mode,
     temp_history |-> LastN(temp_history, STATUS_HISTORY)]

\* get_status under the lock
get_status(t) ==
    /\ hpc[t] = "locked" /\ hop[t] = "get_status"
    /\ Respond(t, "get_status", <<>>, 200, Snapshot)
    /\ NoPlugCall
    /\ lock' = FALSE
    /\ Return(t)
    /\ UNCHANGED <<state, monitor>>

\* set_target under the lock
set_target(t) ==
    /\ hpc[t] = "locked" /\ hop[t] = "set_target"
    /\ target_temp' = harg[t][1]
    /\ Respond(t, "set_target", <<"num", harg[t][1]>>, 200, [success |-> TRUE, target_temp |-> harg[t][1]])
    /\ NoPlugCall
    /\ lock' = FALSE
    /\ Return(t)
    /\ UNCHANGED <<current_temp, heater_on, auto_mode, temp_history, monitor>>

\* set_mode switching the heater off when it leaves automatic mode.
set_mode_StopsHeater(t) ==
    /\ hpc[t] = "locked" /\ hop[t] = "set_mode"
    /\ auto_mode' = harg[t][1]
    /\ IF auto_mode /\ ~harg[t][1] /\ heater_on
       THEN control_heater(FALSE)
       ELSE UNCHANGED heater_on /\ NoPlugCall
    /\ Respond(t, "set_mode", harg[t], 200, [success |-> TRUE, auto_mode |-> harg[t][1]])
    /\ lock' = FALSE
    /\ Return(t)
    /\ UNCHANGED <<current_temp, target_temp, temp_history, monitor>>

\* set_mode under the lock
set_mode(t) ==
    /\ hpc[t] = "locked" /\ hop[t] = "set_mode"
    /\ auto_mode' = harg[t][1]
    /\ Respond(t, "set_mode", harg[t], 200, [success |-> TRUE, auto_mode |-> harg[t][1]])
    /\ NoPlugCall
    /\ lock' = FALSE
    /\ Return(t)
    /\ UNCHANGED <<current_temp, target_temp, heater_on, temp_history, monitor>>

\* set_heater answering success whatever the plug call did.
set_heater_AlwaysSuccess(t) ==
    /\ hpc[t] = "locked" /\ hop[t] = "set_heater"
    /\ IF ~auto_mode
       THEN /\ control_heater(harg[t][1])
            /\ Respond(t, "set_heater", harg[t], 200,
                       [success |-> TRUE, heater_on |-> harg[t][1]])
       ELSE /\ Respond(t, "set_heater", harg[t], 400,
                       [success |-> FALSE,
                        error |-> "Cannot manually control in auto mode"])
            /\ UNCHANGED heater_on /\ NoPlugCall
    /\ lock' = FALSE
    /\ Return(t)
    /\ UNCHANGED <<current_temp, target_temp, auto_mode, temp_history, monitor>>

\* set_heater without the test of config.auto_mode.
set_heater_NoModeCheck(t) ==
    /\ hpc[t] = "locked" /\ hop[t] = "set_heater"
    /\ control_heater(harg[t][1])
    /\ IF plug_call'.result = "raise"
       THEN Respond(t, "set_heater", harg[t], 500, [error |-> "Internal Server Error"])
       ELSE Respond(t, "set_heater", harg[t], 200,
                    [success |-> TRUE, heater_on |-> harg[t][1]])
    /\ lock' = FALSE
    /\ Return(t)
    /\ UNCHANGED <<current_temp, target_temp, auto_mode, temp_history, monitor>>

\* set_heater with acquire() and release() around the body in place of the with
\* block: a raising control_heater leaves the lock held.
set_heater_KeepsLockOnRaise(t) ==
    /\ hpc[t] = "locked" /\ hop[t] = "set_heater"
    /\ IF ~auto_mode
       THEN /\ control_heater(harg[t][1])
            /\ IF plug_call'.result = "raise"
               THEN /\ Respond(t, "set_heater", harg[t], 500, [error |-> "Internal Server Error"])
                    /\ lock' = TRUE
               ELSE /\ Respond(t, "set_heater", harg[t], 200,
                               [success |-> TRUE, heater_on |-> harg[t][1]])
                    /\ lock' = FALSE
       ELSE /\ Respond(t, "set_heater", harg[t], 400,
                       [success |-> FALSE,
                        error |-> "Cannot manually control in auto mode"])
            /\ UNCHANGED heater_on /\ NoPlugCall
            /\ lock' = FALSE
    /\ Return(t)
    /\ UNCHANGED <<current_temp, target_temp, auto_mode, temp_history, monitor>>

\* set_heater under the lock; a raising control_heater leaves through the with
\* block (releasing the lock) and the request fails with a server error.
set_heater(t) ==
    /\ hpc[t] = "locked" /\ hop[t] = "set_heater"
    /\ IF ~auto_mode
       THEN /\ control_heater(harg[t][1])
            /\ IF plug_call'.result = "raise"
               THEN Respond(t, "set_heater", harg[t], 500, [error |-> "Internal Server Error"])
               ELSE Respond(t, "set_heater", harg[t], 200,
                            [success |-> TRUE, heater_on |-> harg[t][1]])
       ELSE /\ Respond(t, "set_heater", harg[t], 400,
                       [success |-> FALSE,
                        error |-> "Cannot manually control in auto mode"])
            /\ UNCHANGED heater_on /\ NoPlugCall
    /\ lock' = FALSE
    /\ Return(t)
    /\ UNCHANGED <<current_temp, target_temp, auto_mode, temp_history, monitor>>

Handler(t) ==
    \/ GetStatusBegin(t)
    \/ SetTargetBegin(t)
    \/ SetModeBegin(t)
    \/ SetHeaterBegin(t)
    \/ HandlerAcquire(t)
    \/ get_status(t)
    \/ set_target(t)
    \/ set_mode(t)
    \/ set_heater(t)

Next == Monitor \/ \E t \in Threads : Handler(t)

Spec == Init /\ [][Next]_vars

\* The loop thread and the request threads are scheduled, a thread inside a
\* with block leaves it, and a thread waiting for config.lock obtains it when
\* the lock keeps being released.
Fairness ==
    /\ WF_vars(MonitorRead \/ MonitorSetCurrent \/ MonitorAppend \/ MonitorEvict
                \/ MonitorControl \/ MonitorExcept \/ MonitorSleep)
    /\ SF_vars(MonitorAcquire)
    /\ \A t \in Threads :
         WF_vars(get_status(t) \/ set_target(t) \/ set_mode(t) \/ set_heater(t))

LiveSpec == Spec /\ Fairness

\* As LiveSpec, and a request thread waiting for config.lock obtains it when the
\* lock keeps being released (the monitor sleeps 5 s with the lock free).
LockFairness == \A t \in Threads : SF_vars(HandlerAcquire(t))

LockLiveSpec == LiveSpec /\ LockFairness

\* ----------------------------------------------------------- history runs
\* A long run of the monitor that fills the history: the sensor delivers a
\* rising ramp, each reading 0.25 C (0.45 F) above the one before, starting at
\* 0.25 C, so that every sample is told from every other; after MaxCycles
\* readings it fails.  The requests are those for /api/status.
RampStep == 25

\* The k-th reading of the ramp in Fahrenheit, as read_temperature returns it.
Reading(k) == C2F(RampStep * k)

\* The number of readings the ramp has delivered: the local temp holds the last.
ReadingsTaken ==
    IF temp = <<>> THEN 0 ELSE (temp[1] - C2F(0)) \div (C2F(RampStep) - C2F(0))

RampOutputs ==
    IF ReadingsTaken < MaxCycles
    THEN {<<"ok", RampStep * (ReadingsTaken + 1)>>}
    ELSE SensorFailures

\* temp = read_temperature() with the ramp sensor.
HistoryRead == ReadFrom(RampOutputs)

HistoryNext ==
    \/ HistoryRead
    \/ MonitorAcquire
    \/ MonitorSetCurrent
    \/ MonitorAppend
    \/ MonitorEvict
    \/ MonitorControl
    \/ MonitorExcept
    \/ MonitorSleep
    \/ \E t \in Threads : GetStatusBegin(t) \/ HandlerAcquire(t) \/ get_status(t)

HistorySpec == Init /\ [][HistoryNext]_vars

\* =================================================================== claims
MonitorHoldsLock == mpc \in {"set_current", "append", "evict", "control"}

TypeOK ==
    /\ current_temp \in Int /\ target_temp \in Int
    /\ heater_on \in BOOLEAN /\ auto_mode \in BOOLEAN
    /\ Len(temp_history) <= MaxSamples + 1
    /\ lock \in BOOLEAN
    /\ mpc \in {"read", "acquire", "set_current", "append", "evict", "control",
                "except", "sleep"}
    /\ plug \in {"none", "on", "off"}
    /\ \A t \in Threads : hpc[t] \in {"idle", "acquire", "locked"}
    /\ lock = (MonitorHoldsLock \/ \E t \in Threads : hpc[t] = "locked")

C2_FailedCommandNotRecorded ==
    [][plug_call'.result \in PlugFailures => heater_on' = heater_on]_vars

\* C3: heater_on is written (control_heater is called) by the monitor only with
\* auto_mode true and by set_heater only with auto_mode false, and by nothing else.
C3_HeaterWriterMatchesMode ==
    [][(heater_on' # heater_on \/ plug_call' # NoCall) =>
         \/ /\ mpc = "control" /\ mpc' # mpc
            /\ auto_mode /\ auto_mode'
         \/ /\ \E t \in Threads :
                 hop[t] = "set_heater" /\ hpc[t] = "locked" /\ hpc'[t] = "idle"
            /\ mpc' = mpc
            /\ ~auto_mode /\ ~auto_mode']_vars

\* set_heater has just switched the heater on in manual mode, in a run in which
\* the monitor has sampled the sensor.
C3_Witness ==
    /\ response.op = "set_heater" /\ response.code = 200
    /\ plug_call.cmd = "on" /\ heater_on /\ ~auto_mode
    /\ Len(temp_history) > 0

\* C4: the decision of a cycle in automatic mode: reading below target - 0.5 with
\* the heater off commands on; reading above target + 0.5 with the heater on
\* commands off; anything else, the band edges included, commands nothing.
C4_Hysteresis ==
    [][(mpc = "control" /\ mpc' # mpc /\ auto_mode) =>
         IF current_temp < target_temp - HYSTERESIS /\ ~heater_on
         THEN plug_call'.cmd = "on" /\ plug' = "on" /\ heater_on'
         ELSE IF current_temp > target_temp + HYSTERESIS /\ heater_on
         THEN plug_call'.cmd = "off" /\ plug' = "off" /\ ~heater_on'
         ELSE plug_call' = NoCall /\ plug' = plug /\ heater_on' = heater_on]_vars

\* The monitor has just commanded the heater off on a reading above the band of
\* a target set by a request.
C4_Witness ==
    /\ plug_call.cmd = "off" /\ response = NoResponse
    /\ mpc \in {"sleep", "except"} /\ auto_mode /\ ~heater_on
    /\ target_temp # INIT_TARGET
    /\ current_temp > target_temp + HYSTERESIS

\* C5: a status snapshot is never taken inside a cycle's update: the monitor is
\* outside its with block, the snapshot is the state as it stands, and its
\* current_temp is the latest history sample.
C5_SnapshotAtomic ==
    response.op = "get_status" =>
        /\ ~MonitorHoldsLock
        /\ response.body = Snapshot
        /\ response.body.temp_history # <<>> =>
              response.body.current_temp =
                  response.body.temp_history[Len(response.body.temp_history)].temp

\* A snapshot taken while the monitor, holding a new reading, waits for the
\* lock: it shows the state from before the cycle.
C5_Witness ==
    /\ response.op = "get_status"
    /\ mpc = "acquire"
    /\ temp[1] # current_temp
    /\ response.body.current_temp = Round1(INIT_CURRENT)
    /\ response.body.temp_history = <<>>

\* The step in which thread t leaves the with block of set_heater.
SetHeaterStep(t) == hop[t] = "set_heater" /\ hpc[t] = "locked" /\ hpc'[t] = "idle"

\* What set_heater does in automatic mode: the 400 answer, no command, no change.
SetHeaterRejected(t) ==
    /\ response'.op = "set_heater" /\ response'.thread = t
    /\ response'.code = 400
    /\ response'.body = [success |-> FALSE,
                          error |-> "Cannot manually control in auto mode"]
    /\ plug_call' = NoCall
    /\ UNCHANGED <<state, plug>>

OutOfRange(a) ==
    \/ a[1] \in {"absent", "nan"}
    \/ a[1] = "num" /\ (a[2] < TARGET_MIN \/ a[2] > TARGET_MAX)

C9_SensorFailureSkipsCycle ==
    [][/\ sensor' \in SensorFailures =>
            /\ mpc' = "except"
            /\ plug_call' = NoCall
            /\ UNCHANGED <<current_temp, temp_history, heater_on, plug, lock>>
       /\ (mpc \in {"except", "sleep"} /\ mpc' # mpc) =>
            /\ mpc' = (IF mpc = "except" THEN "sleep" ELSE "read")
            /\ plug_call' = NoCall
            /\ UNCHANGED <<current_temp, temp_history, heater_on, plug, lock>>]_vars

\* The sensor has just delivered None, a sample being stored and the heater on.
C9_Witness ==
    /\ sensor = <<"None">> /\ mpc = "except"
    /\ Len(temp_history) = 1 /\ heater_on
    /\ current_temp # INIT_CURRENT

\* C10: a failed cycle does not end the loop: when the plug call of a cycle
\* raises the lock is released on the way to the except clause, the except
\* clause leads to the next read, and the loop reads the sensor again and again.
C10_LoopSurvivesFailures ==
    /\ [][(plug_call'.result = "raise" /\ mpc' # mpc) =>
            (mpc' = "except" /\ ~lock')]_vars
    /\ (mpc = "except") ~> (mpc = "read")
    /\ []<><<MonitorRead>>_vars

\* The monitor is in its except clause after a raising plug call.
C10_Witness ==
    /\ mpc = "except" /\ plug_call.result = "raise" /\ response = NoResponse
    /\ ~lock
\* The sample the monitor stores for the k-th reading of the ramp.
Sample(k) == [time |-> TimeStamp, temp |-> Round1(Reading(k))]

\* The samples of the readings n - m + 1 .. n, oldest first, m being the
\* smaller of n and 100.
Window(n) ==
    LET m == Min(n, HISTORY_MAX) IN [i \in 1..m |-> Sample(n - m + i)]

C12_StatusHistory ==
    [][response'.op = "get_status" =>
         LET h == response'.body.temp_history
             k == Min(STATUS_HISTORY, Len(temp_history))
         IN  /\ Len(h) = k /\ k <= STATUS_HISTORY
             /\ \A i \in 1..k : h[i] = temp_history[Len(temp_history) - k + i]
             /\ UNCHANGED state]_vars

\* A status taken off a full history: the samples of the readings 111..130.
C12_Witness ==
    /\ response.op = "get_status" /\ response.code = 200
    /\ Len(temp_history) = HISTORY_MAX
    /\ Len(response.body.temp_history) = STATUS_HISTORY
    /\ response.body.temp_history[1] = Sample(111)
    /\ response.body.temp_history[STATUS_HISTORY] = Sample(130)
\* C13: set_mode stores the requested value in auto_mode and succeeds, whatever
\* the state; it sends no command to the plug and leaves heater_on, target_temp,
\* current_temp and temp_history as they are.
C13_SetModeFrame ==
    [][\A t \in Threads :
         (hop[t] = "set_mode" /\ hpc[t] = "locked" /\ hpc'[t] = "idle") =>
             /\ auto_mode' = harg[t][1]
             /\ response' = [thread |-> t, op |-> "set_mode", arg |-> harg[t],
                              code |-> 200,
                              body |-> [success |-> TRUE, auto_mode |-> harg[t][1]]]
             /\ plug_call' = NoCall
             /\ UNCHANGED <<heater_on, target_temp, current_temp, temp_history, plug>>]_vars

\* set_mode has just switched to manual mode with the heater on: it stays on.
C13_Witness ==
    /\ response.op = "set_mode" /\ response.arg = <<FALSE>> /\ response.code = 200
    /\ ~auto_mode /\ heater_on /\ plug = "on"
    /\ Len(temp_history) > 0

\* C14: whenever config.lock is free, heater_on is the value of the last command
\* sent to the plug (by the monitor or by set_heater), and False when no command
\* was sent since startup.
C14_HeaterIsLastCommand ==
    ~lock => heater_on = (plug = "on")

\* The lock is free after a command "on" whose plug call raised.
C14_Witness ==
    /\ ~lock /\ plug_call = [cmd |-> "on", result |-> "raise"]
    /\ heater_on /\ plug = "on"
    /\ mpc = "except"

\* C15: the monitor's update and decision are atomic with respect to the
\* requests: while the monitor is inside its with block no request thread is
\* inside one and target_temp and auto_mode do not change; when the monitor sends
\* a command, auto_mode is true and the reading of the cycle, which is
\* current_temp, lies outside the band of the target stored at that moment.
C15_DecisionAtomic ==
    [][/\ MonitorHoldsLock =>
            /\ \A t \in Threads : hpc[t] # "locked"
            /\ \A t \in Threads : hpc'[t] # "locked"
            /\ UNCHANGED <<target_temp, auto_mode>>
            /\ heater_on' # heater_on => mpc = "control"
       /\ (mpc = "control" /\ plug_call' # NoCall) =>
            /\ auto_mode /\ auto_mode'
            /\ current_temp = temp[1]
            /\ target_temp' = target_temp
            /\ IF plug_call'.cmd = "on"
               THEN temp[1] < target_temp' - HYSTERESIS
               ELSE temp[1] > target_temp' + HYSTERESIS]_vars

\* The monitor has just switched the heater on against the target 66.0 while a
\* set_target(50.0), under which the reading would be above the band, waits
\* for the lock.
C15_Witness ==
    /\ plug_call.cmd = "on" /\ mpc \in {"sleep", "except"}
    /\ target_temp = INIT_TARGET /\ auto_mode
    /\ \E t \in Threads :
         hpc[t] = "acquire" /\ hop[t] = "set_target" /\ harg[t] = <<TARGET_MIN>>
\* C16: nobody blocks on config.lock for ever: a plug call that raises inside a
\* with block leaves the lock released; every holding of the lock is followed by
\* its release; the monitor's and every request's wait for the lock ends, and
\* every request that has begun is answered; some step is always possible.
C16_NoIndefiniteBlocking ==
    /\ [][plug_call'.result = "raise" => ~lock']_vars
    /\ lock ~> ~lock
    /\ (mpc = "acquire") ~> MonitorHoldsLock
    /\ MonitorHoldsLock ~> (mpc \in {"sleep", "except"})
    /\ \A t \in Threads : (hpc[t] = "acquire") ~> (hpc[t] = "locked")
    /\ \A t \in Threads : (hpc[t] # "idle") ~> (hpc[t] = "idle")
    /\ []ENABLED Next

\* set_heater has just failed on a raising plug call and the lock is free again,
\* the monitor waiting for it.
C16_Witness ==
    /\ response.op = "set_heater" /\ response.code = 500
    /\ plug_call.result = "raise"
    /\ ~lock /\ mpc = "acquire"
\* What a cycle does with a successful read, in either mode, the stored sample
\* having the temperature stored(reading): the read leads into the with block;
\* the sample is appended at the end of the history; when the block is left
\* current_temp is the reading and the last sample is that of the reading; and in
\* manual mode the block sends no command and leaves heater_on alone.
CycleUpdate(stored(_)) ==
    /\ sensor'[1] = "ok" => (mpc' = "acquire" /\ temp' = <<C2F(sensor'[2])>>)
    /\ (mpc = "append" /\ mpc' # mpc) =>
         /\ current_temp = temp[1]
         /\ temp_history' =
               Append(temp_history, [time |-> TimeStamp, temp |-> stored(temp[1])])
    /\ (mpc = "control" /\ mpc' # mpc) =>
         /\ current_temp' = temp[1]
         /\ temp_history' = temp_history
         /\ temp_history[Len(temp_history)] =
               [time |-> TimeStamp, temp |-> stored(temp[1])]
    /\ (MonitorHoldsLock /\ ~auto_mode) =>
         /\ plug_call' = NoCall
         /\ UNCHANGED <<heater_on, plug, target_temp, auto_mode>>

\* The reading itself.
Unrounded(x) == x

\* C17 as stated: on every successful read, in either mode, the cycle sets
\* current_temp to the reading and appends the reading as the last history
\* sample; in manual mode it does nothing else.
C17_CycleStoresReading == [][CycleUpdate(Unrounded)]_vars

\* C17 amended: on every successful read, in either mode, the cycle sets
\* current_temp to the reading and appends the reading rounded to one decimal as
\* the last history sample; in manual mode it does nothing else.
C17_CycleStoresRoundedReading == [][CycleUpdate(Round1)]_vars

\* A cycle in manual mode is complete: the reading 65.48 is current_temp, the
\* sample holds 65.5, and the heater, which automatic mode would have switched
\* on, was never commanded.
C17_Witness ==
    /\ mpc = "sleep" /\ temp = <<6548>>
    /\ current_temp = 6548
    /\ temp_history = <<[time |-> TimeStamp, temp |-> 6550]>>
    /\ ~auto_mode /\ ~heater_on /\ plug = "none"
    /\ target_temp = INIT_TARGET
\* The fields of config at startup: 64.0, 66.0, off, automatic, no samples.
StartupState == <<6400, 6600, FALSE, TRUE, <<>>>>

\* C18: the program starts with target_temp 66.0, auto_mode true, heater_on
\* false, an empty history and the default current_temp 64.0, the lock free and
\* no command sent; and a get_status on that state succeeds and returns these
\* values with an empty history list.
C18_Startup ==
    /\ state = StartupState /\ ~lock /\ plug = "none"
    /\ [][(response'.op = "get_status" /\ state = StartupState) =>
            /\ response'.code = 200
            /\ response'.body = [current_temp |-> 6400, target_temp |-> 6600,
                                 heater_on |-> FALSE, auto_mode |-> TRUE,
                                 temp_history |-> <<>>]
            /\ state' = StartupState]_vars

\* A status returned before the monitor's first read and before any command.
C18_Witness ==
    /\ response.op = "get_status" /\ response.code = 200
    /\ response.body.temp_history = <<>> /\ response.body.auto_mode
    /\ state = StartupState
    /\ mpc = "read" /\ temp = <<>> /\ plug = "none"
\* C19: no step of the monitor (a read, successful or failed, the update, the
\* decision with a plug call that succeeds or fails, the except clause, the
\* sleep) changes target_temp or auto_mode: target_temp changes only to the
\* value a successful set_target returns and auto_mode only to the value a
\* set_mode returns.
C19_LoopKeepsTargetAndMode ==
    [][/\ mpc' # mpc => UNCHANGED <<target_temp, auto_mode>>
       /\ (sensor' # NoRead \/ (plug_call' # NoCall /\ response' = NoResponse)) =>
            UNCHANGED <<target_temp, auto_mode>>
       /\ target_temp' # target_temp =>
            /\ response'.op = "set_target" /\ response'.code = 200
            /\ target_temp' = response'.body.target_temp
       /\ auto_mode' # auto_mode =>
            /\ response'.op = "set_mode" /\ response'.code = 200
            /\ auto_mode' = response'.body.auto_mode]_vars

\* The monitor is in its except clause after a plug call that raised, the
\* target being one set by a request and the mode automatic.
C19_Witness ==
    /\ mpc = "except" /\ plug_call = [cmd |-> "on", result |-> "raise"]
    /\ response = NoResponse
    /\ target_temp = TARGET_MAX /\ auto_mode

\* The reading of the cycle under way is below / above the band of the target.
Cold == temp # <<>> /\ temp[1] < target_temp - HYSTERESIS
Hot == temp # <<>> /\ temp[1] > target_temp + HYSTERESIS

\* The monitor holds a fresh reading: it waits for the lock or is inside the
\* with block.
InCycle == mpc = "acquire" \/ MonitorHoldsLock

\* C20: a cycle in automatic mode whose reading is below the band ends with
\* heater_on true, and one whose reading is above the band with heater_on
\* false, when the plug call does not fail; and under fair scheduling a cycle
\* that holds a cold (hot) reading leads to heater_on true (false), unless a
\* request leaves automatic mode or moves the target in between.
C20_BoundedResponse ==
    /\ [][(mpc = "control" /\ mpc' # mpc /\ auto_mode
            /\ plug_call'.result \notin PlugFailures) =>
              /\ Cold => heater_on'
              /\ Hot => ~heater_on'
              /\ mpc' = "sleep"]_vars
    /\ (InCycle /\ auto_mode /\ Cold) ~> (heater_on \/ ~auto_mode \/ ~Cold)
    /\ (InCycle /\ auto_mode /\ Hot) ~> (~heater_on \/ ~auto_mode \/ ~Hot)

\* The monitor has just switched the heater on, the plug call succeeding, on a
\* reading below the band of the startup target.
C20_Witness ==
    /\ mpc = "sleep" /\ plug_call = [cmd |-> "on", result |-> "ok"]
    /\ response = NoResponse
    /\ auto_mode /\ Cold /\ heater_on
    /\ target_temp = INIT_TARGET /\ current_temp = temp[1]
====
